---- MODULE Spec2Model ----
(***************************************************************************)
(* Model of src/native/src/config.rs: the Merge implementations, the       *)
(* literal inliner GlobalPassOption::build (mk_map) and the pass chain      *)
(* assembled by Options::build.                                             *)
(*                                                                          *)
(* Option<T> is modelled as a sequence of length at most one: None is <<>>, *)
(* Some(v) is <<v>>.  A text (the contents of a Rust String that is parsed) *)
(* is a sequence of one-character strings.                                  *)
(***************************************************************************)
EXTENDS Integers, Sequences, FiniteSets, TLC

VARIABLES
    layers,     \* per build: the configuration documents the caller merges before build
    idx,        \* per build: how many of layers have been merged into config
    opts,       \* per build: the Options (self): config document and source_maps
    config,     \* per build: Option<Config>, the `config` argument / local of build
    pc,         \* per build: position inside Options::build
    gopt,       \* per build: the GlobalPassOption whose build(c) is running
    todo,       \* per build: names not yet visited by the running mk_map loop
    inline,     \* per build: the InlineGlobals maps filled so far
    panicked,   \* per build: Option<panic message>
    built,      \* per build: Option<BuiltConfig>
    cm,         \* the Compiler's shared SourceMap: the registered source files
    environ     \* the process environment read by env::vars()

vars == <<layers, idx, opts, config, pc, gopt, todo, inline, panicked, built, cm, environ>>

----------------------------------------------------------------------------
(* Bounds *)

\* longest literal text (vars value or environment value) drawn as an input
MaxLen == 3
\* most configuration documents the caller merges before calling build
MaxLayers == 2

Threads == {1, 2}

----------------------------------------------------------------------------
(* Option helpers *)

None == <<>>
Some(v) == <<v>>
IsSome(o) == o # <<>>
OptionOf(S) == {None} \cup {Some(v) : v \in S}

EmptyMap == [k \in {} |-> <<>>]
MapInsert(m, k, v) == [x \in (DOMAIN m) \cup {k} |-> IF x = k THEN v ELSE m[x]]

SetMin(S) == CHOOSE x \in S : \A y \in S : x <= y

----------------------------------------------------------------------------
(* JscTarget: the derived Ord follows declaration order *)

Es3 == 0
Es5 == 1
Es2015 == 2
Es2016 == 3
Es2017 == 4
Es2018 == 5
Es2019 == 6

JscTarget == Es3..Es2019

JscTarget_default == Es3

----------------------------------------------------------------------------
(* The parser run by mk_map: Parser::new(.., Syntax::Es(default), ..)       *)
(* .parse_module(), on the fragment of ECMAScript written with the          *)
(* characters of Alphabet: identifiers (runs of x), single-quoted string    *)
(* literals, the comma operator, and ; (statement end / empty statement).   *)
(* No text holds a line break, so a statement ends only at ; or at the end  *)
(* of input.                                                                *)

Alphabet == {"x", "'", ",", ";"}

Texts == UNION {[1..n -> Alphabet] : n \in 0..MaxLen}

StrLit(v) == [type |-> "Str", value |-> v, exprs |-> <<>>]
IdentExpr(v) == [type |-> "Ident", value |-> v, exprs |-> <<>>]
SeqExpr(es) == [type |-> "Seq", value |-> <<>>, exprs |-> es]

NoExpr == [type |-> "None", value |-> <<>>, exprs |-> <<>>]
ExprStmt(e) == [kind |-> "Expr", expr |-> e]
EmptyStmt == [kind |-> "Empty", expr |-> NoExpr]

PrimaryFail == [ok |-> FALSE, expr |-> NoExpr, next |-> 0]

\* index of the last character of the identifier that starts at s[i]
IdentEnd(s, i) ==
    LET stop == {j \in i..Len(s) : s[j] # "x"}
    IN IF stop = {} THEN Len(s) ELSE SetMin(stop) - 1

\* index of the quote that closes the string opened at s[i], 0 when none does
ClosingQuote(s, i) ==
    LET close == {j \in (i + 1)..Len(s) : s[j] = "'"}
    IN IF close = {} THEN 0 ELSE SetMin(close)

IdentAt(s, i, last) ==
    [ok |-> TRUE, expr |-> IdentExpr(SubSeq(s, i, last)), next |-> last + 1]

StrAt(s, i, close) ==
    IF close = 0 THEN PrimaryFail
    ELSE [ok |-> TRUE, expr |-> StrLit(SubSeq(s, i + 1, close - 1)), next |-> close + 1]

\* a primary expression starting at s[i]
ParsePrimary(s, i) ==
    IF i > Len(s) THEN PrimaryFail
    ELSE IF s[i] = "x" THEN IdentAt(s, i, IdentEnd(s, i))
    ELSE IF s[i] = "'" THEN StrAt(s, i, ClosingQuote(s, i))
    ELSE PrimaryFail

ListFail == [ok |-> FALSE, exprs |-> <<>>, next |-> 0]

ConsExpr(e, r) ==
    IF ~r.ok THEN ListFail
    ELSE [ok |-> TRUE, exprs |-> <<e>> \o r.exprs, next |-> r.next]

RECURSIVE ParseExprList(_, _)
RECURSIVE ExprListAfter(_, _)

\* the rest of an expression whose first primary p was read
ExprListAfter(s, p) ==
    IF ~p.ok THEN ListFail
    ELSE IF p.next <= Len(s) /\ s[p.next] = ","
         THEN ConsExpr(p.expr, ParseExprList(s, p.next + 1))
         ELSE [ok |-> TRUE, exprs |-> <<p.expr>>, next |-> p.next]

\* primary ("," primary)* starting at s[i]
ParseExprList(s, i) == ExprListAfter(s, ParsePrimary(s, i))

\* one operand is that expression, several are a sequence (comma) expression
ExprOf(es) == IF Len(es) = 1 THEN es[1] ELSE SeqExpr(es)

ModuleFail == [ok |-> FALSE, body |-> <<>>]

ConsStmt(st, r) ==
    IF ~r.ok THEN ModuleFail ELSE [ok |-> TRUE, body |-> <<st>> \o r.body]

RECURSIVE ParseStmts(_, _)
RECURSIVE StmtAfter(_, _)

\* the statements from an expression statement on, its expression l was read
StmtAfter(s, l) ==
    IF ~l.ok THEN ModuleFail
    ELSE IF l.next > Len(s) THEN [ok |-> TRUE, body |-> <<ExprStmt(ExprOf(l.exprs))>>]
    ELSE IF s[l.next] = ";"
         THEN ConsStmt(ExprStmt(ExprOf(l.exprs)), ParseStmts(s, l.next + 1))
         ELSE ModuleFail

\* the statements of s from position i on
ParseStmts(s, i) ==
    IF i > Len(s) THEN [ok |-> TRUE, body |-> <<>>]
    ELSE IF s[i] = ";" THEN ConsStmt(EmptyStmt, ParseStmts(s, i + 1))
    ELSE StmtAfter(s, ParseExprList(s, i))

parse_module(s) == ParseStmts(s, 1)

----------------------------------------------------------------------------
(* Configuration values *)

\* Syntax (swc parser): what its accessors jsx(), typescript(), ... return
Syntax ==
    [typescript : BOOLEAN, jsx : BOOLEAN, decorators : BOOLEAN, class_props : BOOLEAN,
     export_default_from : BOOLEAN, export_namespace_from : BOOLEAN]

\* Syntax::default() is Es(EsConfig::default()): every flag off
Syntax_default ==
    [typescript |-> FALSE, jsx |-> FALSE, decorators |-> FALSE, class_props |-> FALSE,
     export_default_from |-> FALSE, export_namespace_from |-> FALSE]

\* react::Options, opaque to this file; react_default is react::Options::default()
ReactOptions == {"react_default", "react_custom"}
react_default == "react_default"

\* ConstModulesConfig: the set of module names of `globals`
ConstModulesConfig_default == [globals |-> {}]

\* ModuleConfig: the tag and the no_interop flag of the format's Config
ModuleConfig == [type : {"commonjs", "umd", "amd"}, no_interop : BOOLEAN]

\* fn default_envs
default_envs == {"NODE_ENV", "SWC_ENV"}

\* #[derive(Default)] on GlobalPassOption: both collections empty
GlobalPassOption_default == [vars |-> EmptyMap, envs |-> {}]

\* #[derive(Default)] on TransformConfig
TransformConfig_default ==
    [react |-> react_default, const_modules |-> None, optimizer |-> None]

\* #[derive(Default)] on JscConfig
JscConfig_default ==
    [syntax |-> None, transform |-> None, external_helpers |-> FALSE,
     target |-> JscTarget_default]

\* #[derive(Default)] on Config
Config_default == [jsc |-> JscConfig_default, module |-> None, minify |-> None]

----------------------------------------------------------------------------
(* Deserialization (serde attributes of the structs).  A document is the    *)
(* same tree as the value, with an Option at every field that has a serde   *)
(* default: None there means the user's document omits the field.           *)

\* GlobalPassOption: vars #[serde(default)], envs #[serde(default = "default_envs")]
Deserialize_GlobalPassOption(d) ==
    [vars |-> IF IsSome(d.vars) THEN d.vars[1] ELSE EmptyMap,
     envs |-> IF IsSome(d.envs) THEN d.envs[1] ELSE default_envs]

Deserialize_OptimizerConfig(d) ==
    [globals |-> IF IsSome(d.globals)
                 THEN Some(Deserialize_GlobalPassOption(d.globals[1]))
                 ELSE None]

Deserialize_TransformConfig(d) ==
    [react |-> IF IsSome(d.react) THEN d.react[1] ELSE react_default,
     const_modules |-> d.const_modules,
     optimizer |-> IF IsSome(d.optimizer)
                   THEN Some(Deserialize_OptimizerConfig(d.optimizer[1]))
                   ELSE None]

Deserialize_JscConfig(d) ==
    [syntax |-> d.syntax,
     transform |-> IF IsSome(d.transform)
                   THEN Some(Deserialize_TransformConfig(d.transform[1]))
                   ELSE None,
     external_helpers |-> IF IsSome(d.external_helpers) THEN d.external_helpers[1] ELSE FALSE,
     target |-> IF IsSome(d.target) THEN d.target[1] ELSE JscTarget_default]

Deserialize_Config(d) ==
    [jsc |-> Deserialize_JscConfig(d.jsc), module |-> d.module, minify |-> d.minify]

----------------------------------------------------------------------------
(* trait Merge *)

\* a flag overwritten by the later layer
BoolMerge_replace(self, from) == from

\* impl Merge for bool
BoolMerge(self, from) == self \/ from

\* a target overwritten by the later layer
JscTargetMerge_replace(self, from) == from

\* impl Merge for JscTarget
JscTargetMerge(self, from) == IF self < from THEN from ELSE self

\* impl Merge for Syntax
SyntaxMerge(self, from) == from

\* impl Merge for GlobalPassOption
GlobalPassOptionMerge(self, from) == from

\* impl Merge for react::Options
ReactOptionsMerge(self, from) == from

\* impl Merge for ConstModulesConfig
ConstModulesConfigMerge(self, from) == from

\* impl Merge for Option<ModuleConfig>
ModuleConfigOptionMerge(self, from) == IF IsSome(from) THEN Some(from[1]) ELSE self

\* impl<T: Clone + Merge> Merge for Option<T>, T = bool
OptionMerge_bool(self, from) ==
    IF IsSome(from)
    THEN IF IsSome(self) THEN Some(BoolMerge(self[1], from[1])) ELSE Some(from[1])
    ELSE self

\* impl<T: Clone + Merge> Merge for Option<T>, T = Syntax
OptionMerge_Syntax(self, from) ==
    IF IsSome(from)
    THEN IF IsSome(self) THEN Some(SyntaxMerge(self[1], from[1])) ELSE Some(from[1])
    ELSE self

\* impl<T: Clone + Merge> Merge for Option<T>, T = GlobalPassOption
OptionMerge_GlobalPassOption(self, from) ==
    IF IsSome(from)
    THEN IF IsSome(self) THEN Some(GlobalPassOptionMerge(self[1], from[1])) ELSE Some(from[1])
    ELSE self

\* impl<T: Clone + Merge> Merge for Option<T>, T = ConstModulesConfig
OptionMerge_ConstModulesConfig(self, from) ==
    IF IsSome(from)
    THEN IF IsSome(self) THEN Some(ConstModulesConfigMerge(self[1], from[1])) ELSE Some(from[1])
    ELSE self

\* impl Merge for OptimizerConfig
OptimizerConfigMerge(self, from) ==
    [globals |-> OptionMerge_GlobalPassOption(self.globals, from.globals)]

\* impl<T: Clone + Merge> Merge for Option<T>, T = OptimizerConfig
OptionMerge_OptimizerConfig(self, from) ==
    IF IsSome(from)
    THEN IF IsSome(self) THEN Some(OptimizerConfigMerge(self[1], from[1])) ELSE Some(from[1])
    ELSE self

\* impl Merge for TransformConfig
TransformConfigMerge(self, from) ==
    [optimizer |-> OptionMerge_OptimizerConfig(self.optimizer, from.optimizer),
     const_modules |-> OptionMerge_ConstModulesConfig(self.const_modules,
                                                     from.const_modules),
     react |-> ReactOptionsMerge(self.react, from.react)]

\* impl<T: Clone + Merge> Merge for Option<T>, T = TransformConfig
OptionMerge_TransformConfig(self, from) ==
    IF IsSome(from)
    THEN IF IsSome(self) THEN Some(TransformConfigMerge(self[1], from[1])) ELSE Some(from[1])
    ELSE self

\* impl Merge for JscConfig
JscConfigMerge(self, from) ==
    [syntax |-> OptionMerge_Syntax(self.syntax, from.syntax),
     transform |-> OptionMerge_TransformConfig(self.transform, from.transform),
     target |-> JscTargetMerge(self.target, from.target),
     external_helpers |-> BoolMerge(self.external_helpers, from.external_helpers)]

\* impl Merge for Config
ConfigMerge(self, from) ==
    [jsc |-> JscConfigMerge(self.jsc, from.jsc),
     module |-> ModuleConfigOptionMerge(self.module, from.module),
     minify |-> OptionMerge_bool(self.minify, from.minify)]

\* impl<T: Clone + Merge> Merge for Option<T>, T = Config
OptionMerge_Config(self, from) ==
    IF IsSome(from)
    THEN IF IsSome(self) THEN Some(ConfigMerge(self[1], from[1])) ELSE Some(from[1])
    ELSE self

----------------------------------------------------------------------------
(* GlobalPassOption::build: one turn of the loop of mk_map *)

\* a file name that leaves the variable's name out
FileNameCustom_fixed(k) == "GLOBAL."

\* FileName::Custom(format!("GLOBAL.{}", k))
FileNameCustom(k) == "GLOBAL." \o k

\* format!("'{}'", v) for an environment value, the text itself for a vars value
LiteralText(v, is_env) == IF is_env THEN <<"'">> \o v \o <<"'">> ELSE v

\* the two panic! messages of mk_map, with the values formatted into them
ParsePanic(k, v_str) ==
    [fmt |-> "failed to parse global variable (k)=(v_str) as module",
     name |-> Some(k), text |-> v_str]
ExprPanic(v_str) ==
    [fmt |-> "(v_str) is not a valid expression", name |-> None, text |-> v_str]

\* module.body.pop() matched against Some(ModuleItem::Stmt(Stmt::Expr(box expr)))
PopExpr(body) ==
    IF Len(body) > 0 /\ body[Len(body)].kind = "Expr"
    THEN Some(body[Len(body)].expr)
    ELSE None

\* the end of the loop body: the expression inserted, or the panic
MkMapPopped(k, v_str, parsed, expr) ==
    [file |-> [name |-> FileNameCustom(k), src |-> v_str],
     ok |-> parsed /\ IsSome(expr),
     expr |-> IF parsed /\ IsSome(expr) THEN expr[1] ELSE NoExpr,
     panic |-> IF ~parsed THEN ParsePanic(k, v_str) ELSE ExprPanic(v_str)]

MkMapParsed(k, v_str, module) == MkMapPopped(k, v_str, module.ok, PopExpr(module.body))

\* the loop body for entry (k, v): the file it registers, then the expression or the panic
MkMapEntry(k, v, is_env) ==
    MkMapParsed(k, LiteralText(v, is_env), parse_module(LiteralText(v, is_env)))

----------------------------------------------------------------------------
(* Options::build: the pass chain *)

\* the GlobalPassOption whose build(c) is called: optimizer.map(|o| o.globals
\* .unwrap_or_else(Default::default)), else GlobalPassOption::default()
SelectGlobals(cfg) ==
    LET transform == IF IsSome(cfg.jsc.transform) THEN cfg.jsc.transform[1]
                     ELSE TransformConfig_default
    IN IF IsSome(transform.optimizer)
       THEN IF IsSome(transform.optimizer[1].globals)
            THEN transform.optimizer[1].globals[1]
            ELSE GlobalPassOption_default
       ELSE GlobalPassOption_default

\* a comparison that leaves the milestone itself out
CompatEnabled_strict(target, milestone) == target < milestone

\* target <= JscTarget::<milestone>
CompatEnabled(target, milestone) == target <= milestone

\* the interop flag taken as it is, not negated
need_interop_analysis_plain(module) ==
    IF IsSome(module) THEN module[1].no_interop ELSE FALSE

\* let need_interop_analysis = match config.module { .. }
need_interop_analysis(module) ==
    IF IsSome(module) THEN ~module[1].no_interop ELSE FALSE

\* ModuleConfig::build: the module pass, by the name of its constructor
ModuleConfig_build(module) ==
    IF ~IsSome(module) THEN "noop"
    ELSE IF module[1].type = "commonjs" THEN "common_js"
    ELSE IF module[1].type = "umd" THEN "umd"
    ELSE "amd"

\* a member of the chain: Optional::new(pass, enabled), or the bare pass (enabled)
Pass(name, enabled) == [name |-> name, enabled |-> enabled]

SyntaxOf(cfg) == IF IsSome(cfg.jsc.syntax) THEN cfg.jsc.syntax[1] ELSE Syntax_default

TransformOf(cfg) ==
    IF IsSome(cfg.jsc.transform) THEN cfg.jsc.transform[1] ELSE TransformConfig_default

\* the arguments of chain_at!(Module, ...), as written
ChainMembers(cfg) ==
    << Pass("react", SyntaxOf(cfg).jsx),
       Pass("typescript_strip", SyntaxOf(cfg).typescript),
       Pass("resolver", TRUE),
       Pass("const_modules", IsSome(TransformOf(cfg).const_modules)),
       Pass("inline_globals", TRUE),
       Pass("decorators", SyntaxOf(cfg).decorators),
       Pass("class_properties", SyntaxOf(cfg).class_props),
       Pass("export", SyntaxOf(cfg).export_default_from
                        \/ SyntaxOf(cfg).export_namespace_from),
       Pass("simplifier", IsSome(TransformOf(cfg).optimizer)),
       Pass("compat_es2018", CompatEnabled(cfg.jsc.target, Es2018)),
       Pass("compat_es2017", CompatEnabled(cfg.jsc.target, Es2017)),
       Pass("compat_es2016", CompatEnabled(cfg.jsc.target, Es2016)),
       Pass("compat_es2015", CompatEnabled(cfg.jsc.target, Es2015)),
       Pass("compat_es3", CompatEnabled(cfg.jsc.target, Es3)),
       Pass("import_analyzer", need_interop_analysis(cfg.module)),
       Pass("InjectHelpers", TRUE),
       Pass(ModuleConfig_build(cfg.module), TRUE),
       Pass("hygiene", TRUE),
       Pass("fixer", TRUE) >>

\* members i and j of a chain exchanged
Exchange(ch, i, j) ==
    [n \in 1..Len(ch) |-> IF n = i THEN ch[j] ELSE IF n = j THEN ch[i] ELSE ch[n]]

\* a chain that ends fixer, hygiene
chain_at_fixer_early(cfg) ==
    Exchange(ChainMembers(cfg), Len(ChainMembers(cfg)) - 1, Len(ChainMembers(cfg)))

\* a chain that injects the helpers before the import analysis
chain_at_helpers_early(cfg) == Exchange(ChainMembers(cfg), 15, 16)

\* chain_at!: the passes chained left to right, in the order of the arguments
chain_at(cfg) == ChainMembers(cfg)

\* self.source_maps.as_ref().map(..).unwrap_or(false)
SourceMapsOf(source_maps) ==
    IF IsSome(source_maps)
    THEN IF source_maps[1].kind = "Bool" THEN source_maps[1].b ELSE TRUE
    ELSE FALSE

\* the BuiltConfig literal that ends build
BuiltConfig(cfg, o, globals) ==
    [minify |-> IF IsSome(cfg.minify) THEN cfg.minify[1] ELSE FALSE,
     pass |-> chain_at(cfg),
     inline_globals |-> globals,
     external_helpers |-> cfg.jsc.external_helpers,
     syntax |-> SyntaxOf(cfg),
     source_maps |-> SourceMapsOf(o.source_maps)]

\* the passes that run, in order: those of the chain that are enabled
RunningPasses(b) ==
    LET on == SelectSeq(b.pass, LAMBDA p : p.enabled)
    IN [i \in 1..Len(on) |-> on[i].name]

----------------------------------------------------------------------------
(* Actions.  t is one call of Options::build, with the merges its caller    *)
(* does first; the calls share the Compiler (cm) and the environment.       *)

\* the caller folds one more configuration document into `config`
MergeLayer(t) ==
    /\ pc[t] = "load"
    /\ idx[t] < Len(layers[t])
    /\ config' = [config EXCEPT ![t] =
           OptionMerge_Config(@, Some(Deserialize_Config(layers[t][idx[t] + 1])))]
    /\ idx' = [idx EXCEPT ![t] = @ + 1]
    /\ UNCHANGED <<layers, opts, pc, gopt, todo, inline, panicked, built, cm, environ>>

\* the effective configuration: config.unwrap_or_else(Default::default), then
\* config.merge(c) for the invocation's own configuration
EffectiveConfig(cfg, o) ==
    IF IsSome(o.config)
    THEN ConfigMerge(IF IsSome(cfg) THEN cfg[1] ELSE Config_default,
                     Deserialize_Config(o.config[1]))
    ELSE IF IsSome(cfg) THEN cfg[1] ELSE Config_default

BuildStartWith(t, cfg, g) ==
    /\ config' = [config EXCEPT ![t] = Some(cfg)]
    /\ gopt' = [gopt EXCEPT ![t] = g]
    /\ todo' = [todo EXCEPT ![t] = DOMAIN g.vars]

\* Options::build up to the call of GlobalPassOption::build
BuildStart(t) ==
    /\ pc[t] = "load"
    /\ idx[t] = Len(layers[t])
    /\ BuildStartWith(t, EffectiveConfig(config[t], opts[t]),
                      SelectGlobals(EffectiveConfig(config[t], opts[t])))
    /\ pc' = [pc EXCEPT ![t] = "vars"]
    /\ UNCHANGED <<layers, idx, opts, inline, panicked, built, cm, environ>>

\* the effect of one turn of mk_map's loop whose outcome is r
MkMapApply(t, k, is_env, r) ==
    /\ cm' = Append(cm, [name |-> r.file.name, src |-> r.file.src,
                         build |-> t, is_env |-> is_env, key |-> k])
    /\ todo' = [todo EXCEPT ![t] = @ \ {k}]
    /\ IF r.ok
       THEN /\ inline' = [inline EXCEPT ![t] =
                   IF is_env THEN [@ EXCEPT !.envs = MapInsert(@, k, r.expr)]
                   ELSE [@ EXCEPT !.globals = MapInsert(@, k, r.expr)]]
            /\ UNCHANGED panicked
       ELSE /\ panicked' = [panicked EXCEPT ![t] = Some(r.panic)]
            /\ UNCHANGED inline

\* one turn of mk_map's loop over `values`; the HashMap / environment order is any order
MkMapTurn(t, k, v, is_env) == MkMapApply(t, k, is_env, MkMapEntry(k, v, is_env))

\* globals: mk_map(c, self.vars.into_iter(), false)
MkMapVars(t) ==
    /\ pc[t] = "vars"
    /\ panicked[t] = None
    /\ IF todo[t] = {}
       THEN /\ pc' = [pc EXCEPT ![t] = "envs"]
            /\ todo' = [todo EXCEPT ![t] = {k \in DOMAIN environ : k \in gopt[t].envs}]
            /\ UNCHANGED <<inline, panicked, cm>>
       ELSE /\ \E k \in todo[t] : MkMapTurn(t, k, gopt[t].vars[k], FALSE)
            /\ UNCHANGED pc
    /\ UNCHANGED <<layers, idx, opts, config, gopt, built, environ>>

\* envs: mk_map(c, env::vars().filter(|(k, _)| envs.contains(&*k)), true)
MkMapEnvs(t) ==
    /\ pc[t] = "envs"
    /\ panicked[t] = None
    /\ IF todo[t] = {}
       THEN /\ pc' = [pc EXCEPT ![t] = "chain"]
            /\ UNCHANGED <<todo, inline, panicked, cm>>
       ELSE /\ \E k \in todo[t] : MkMapTurn(t, k, environ[k], TRUE)
            /\ UNCHANGED pc
    /\ UNCHANGED <<layers, idx, opts, config, gopt, built, environ>>

\* the rest of Options::build: need_interop_analysis, chain_at!, BuiltConfig
BuildChain(t) ==
    /\ pc[t] = "chain"
    /\ built' = [built EXCEPT ![t] = Some(BuiltConfig(config[t][1], opts[t], inline[t]))]
    /\ pc' = [pc EXCEPT ![t] = "done"]
    /\ UNCHANGED <<layers, idx, opts, config, gopt, todo, inline, panicked, cm, environ>>

Next ==
    \E t \in Threads :
        \/ MergeLayer(t)
        \/ BuildStart(t)
        \/ MkMapVars(t)
        \/ MkMapEnvs(t)
        \/ BuildChain(t)

----------------------------------------------------------------------------
(* Inputs and initial states *)

Doc(syntax, transform, external_helpers, target, module, minify) ==
    [jsc |-> [syntax |-> syntax, transform |-> transform,
              external_helpers |-> external_helpers, target |-> target],
     module |-> module, minify |-> minify]

TransformDoc(const_modules, optimizer) ==
    [react |-> None, const_modules |-> const_modules, optimizer |-> optimizer]

GlobalsDoc(vs, envs) == [vars |-> vs, envs |-> envs]

OptionsOf(cfg, source_maps) == [config |-> cfg, source_maps |-> source_maps]

SeqsUpTo(S, n) == UNION {[1..m -> S] : m \in 0..n}

PlainText == <<"x">>

\* state of the builds before anything ran; the builds outside `active` never run
Fresh(active) ==
    /\ idx = [t \in Threads |-> 0]
    /\ config = [t \in Threads |-> None]
    /\ pc = [t \in Threads |-> IF t \in active THEN "load" ELSE "idle"]
    /\ gopt = [t \in Threads |-> GlobalPassOption_default]
    /\ todo = [t \in Threads |-> {}]
    /\ inline = [t \in Threads |-> [globals |-> EmptyMap, envs |-> EmptyMap]]
    /\ panicked = [t \in Threads |-> None]
    /\ built = [t \in Threads |-> None]
    /\ cm = <<>>

\* how a document states the two enable flags (external_helpers, minify)
FlagDocs ==
    {<<None, None>>, <<Some(FALSE), Some(FALSE)>>, <<Some(TRUE), Some(TRUE)>>,
     <<Some(TRUE), None>>, <<None, Some(TRUE)>>}

\* layered documents: each states a target, or the enable flags, or nothing
MergeDocs ==
    {Doc(None, None, None, tg, None, None) : tg \in OptionOf(JscTarget)}
    \cup {Doc(None, None, f[1], None, None, f[2]) : f \in FlagDocs}

\* one build: up to MaxLayers documents merged by the caller, then the invocation's own
Init ==
    /\ Fresh({1})
    /\ \E ls \in SeqsUpTo(MergeDocs, MaxLayers), c \in OptionOf(MergeDocs) :
          /\ layers = [t \in Threads |-> IF t = 1 THEN ls ELSE <<>>]
          /\ opts = [t \in Threads |-> OptionsOf(IF t = 1 THEN c ELSE None, None)]
    /\ environ = [k \in {"NODE_ENV"} |-> PlainText]

Spec == Init /\ [][Next]_vars

\* the optimizer part of a document: absent, without globals, globals without fields, full
TransformDocs ==
    {None,
     Some(TransformDoc(None, None)),
     Some(TransformDoc(Some(ConstModulesConfig_default), Some([globals |-> None]))),
     Some(TransformDoc(None, Some([globals |-> Some(GlobalsDoc(None, None))]))),
     Some(TransformDoc(None, Some([globals |->
         Some(GlobalsDoc(Some([k \in {"FOO"} |-> PlainText]), Some({"SWC_ENV"})))])))}

PipelineDocs ==
    {Doc(sy, tr, None, tg, md, None) :
        sy \in OptionOf(Syntax), tr \in TransformDocs,
        tg \in OptionOf(JscTarget), md \in OptionOf(ModuleConfig)}

\* one build of one effective configuration, every combination of what selects passes
InitPipeline ==
    /\ Fresh({1})
    /\ \E d \in PipelineDocs :
          layers = [t \in Threads |-> IF t = 1 THEN <<d>> ELSE <<>>]
    /\ opts = [t \in Threads |-> OptionsOf(None, None)]
    /\ environ = [k \in {"NODE_ENV"} |-> PlainText]

SpecPipeline == InitPipeline /\ [][Next]_vars

SourceMapsInputs ==
    OptionOf({[kind |-> "Bool", b |-> TRUE], [kind |-> "Bool", b |-> FALSE],
              [kind |-> "Str", b |-> FALSE]})

GlobalsOnly(vs, envs) ==
    Doc(None, Some(TransformDoc(None, Some([globals |-> Some(GlobalsDoc(Some(vs), envs))]))),
        None, None, None, None)

\* either the vars literal or the environment value ranges over every text
LiteralInputs ==
    {<<[k \in {"FOO", "NODE_ENV"} |-> IF k = "FOO" THEN v ELSE PlainText],
       [k \in {"NODE_ENV"} |-> PlainText]>> : v \in Texts}
    \cup
    {<<[k \in {"FOO"} |-> PlainText],
       [k \in {"NODE_ENV", "SWC_ENV"} |-> IF k = "NODE_ENV" THEN v ELSE PlainText]>> :
       v \in Texts}

\* two builds on one Compiler, each inlining literals
InitGlobals ==
    /\ Fresh(Threads)
    /\ \E in \in LiteralInputs, sm \in SourceMapsInputs :
          /\ layers = [t \in Threads |->
                          IF t = 1 THEN <<GlobalsOnly(in[1], None)>> ELSE <<>>]
          /\ opts = [t \in Threads |->
                        IF t = 1 THEN OptionsOf(None, sm)
                        ELSE OptionsOf(Some(GlobalsOnly([k \in {"FOO"} |-> PlainText],
                                                        Some({"NODE_ENV"}))), None)]
          /\ environ = in[2]

SpecGlobals == InitGlobals /\ [][Next]_vars

----------------------------------------------------------------------------
(* Properties *)

Built(t) == built[t][1]

\* the documents merged so far into build t's configuration
MergedDocs(t) ==
    {layers[t][i] : i \in 1..idx[t]}
    \cup (IF pc[t] \notin {"load", "idle"} /\ IsSome(opts[t].config)
          THEN {opts[t].config[1]} ELSE {})

PassEnabled(b, name) == \E i \in 1..Len(b.pass) : b.pass[i].name = name /\ b.pass[i].enabled

\* C1: every pipeline that build produces runs hygiene immediately before fixer,
\* and fixer is the last pass that runs
C1_HygieneThenFixerLast ==
    \A t \in Threads : IsSome(built[t]) =>
        LET r == RunningPasses(Built(t))
        IN /\ Len(r) >= 2
           /\ r[Len(r)] = "fixer"
           /\ r[Len(r) - 1] = "hygiene"
           /\ \A i \in 1..(Len(r) - 2) : r[i] \notin {"hygiene", "fixer"}

\* a pipeline was built with every optional pass switched on
C1_Witness ==
    /\ IsSome(built[1])
    /\ Len(RunningPasses(Built(1))) = 19
    /\ Built(1).pass[17].name = "umd"

\* C2: a vars entry whose text does not parse to exactly one expression statement
\* gets no substitution: build aborts, and the message holds the name and the text
GoodLiteral(v) ==
    /\ parse_module(v).ok
    /\ Len(parse_module(v).body) = 1
    /\ parse_module(v).body[1].kind = "Expr"

C2_BadLiteralAborts ==
    \A t \in Threads :
        /\ \A k \in DOMAIN inline[t].globals : GoodLiteral(gopt[t].vars[k])
        /\ (pc[t] = "vars" /\ IsSome(panicked[t])) =>
               \E k \in (DOMAIN gopt[t].vars) \ (DOMAIN inline[t].globals) :
                   /\ panicked[t][1].name = Some(k)
                   /\ panicked[t][1].text = gopt[t].vars[k]

\* the milestones that have a compatibility pass, with the name of the pass
Milestones ==
    {<<Es2018, "compat_es2018">>, <<Es2017, "compat_es2017">>, <<Es2016, "compat_es2016">>,
     <<Es2015, "compat_es2015">>, <<Es3, "compat_es3">>}

\* C3: a milestone's pass is enabled exactly when the effective target is at or
\* below the milestone, and every pass a target enables every older target enables
C3_CompatCumulative ==
    \A t \in Threads : IsSome(built[t]) =>
        LET cfg == config[t][1]
        IN /\ \A m \in Milestones :
                 PassEnabled(Built(t), m[2]) <=> (cfg.jsc.target <= m[1])
           /\ \A older \in JscTarget : older < cfg.jsc.target =>
                 \A i \in 1..Len(Built(t).pass) :
                     Built(t).pass[i].enabled =>
                         chain_at([cfg EXCEPT !.jsc.target = older])[i].enabled

\* a pipeline built for es2016: the passes of es2018..es2016 on, those below off
C3_Witness ==
    /\ IsSome(built[1])
    /\ config[1][1].jsc.target = Es2016
    /\ PassEnabled(Built(1), "compat_es2016")
    /\ ~PassEnabled(Built(1), "compat_es2015")

\* C4: no two files registered in the shared source map have the same name
C4_NamesDistinct ==
    \A i, j \in 1..Len(cm) : i # j => cm[i].name # cm[j].name

\* C4, amended: the name is a function of the variable's name alone; two
\* registrations share a name exactly when they are for the same variable name,
\* so the entries of one map of one build never share one
C4_NamesFollowKeys ==
    \A i, j \in 1..Len(cm) :
        /\ (cm[i].name = cm[j].name) <=> (cm[i].key = cm[j].key)
        /\ (i # j /\ cm[i].build = cm[j].build /\ cm[i].is_env = cm[j].is_env)
               => cm[i].name # cm[j].name

\* two builds registered the same name, and one build two different names
C4_Witness ==
    \E i, j, n \in 1..Len(cm) :
        /\ cm[i].build # cm[j].build
        /\ cm[i].name = cm[j].name
        /\ cm[n].build = cm[i].build
        /\ cm[n].is_env = cm[i].is_env
        /\ cm[n].name # cm[i].name

SuppliesEnvs(d) ==
    /\ IsSome(d.jsc.transform)
    /\ IsSome(d.jsc.transform[1].optimizer)
    /\ IsSome(d.jsc.transform[1].optimizer[1].globals)
    /\ IsSome(d.jsc.transform[1].optimizer[1].globals[1].envs)

\* C5: with the optimizer configured and envs given by no document, the
\* GlobalPassOption that build uses names both NODE_ENV and SWC_ENV
C5_DefaultEnvs ==
    \A t \in Threads :
        (/\ pc[t] \notin {"load", "idle"}
         /\ IsSome(TransformOf(config[t][1]).optimizer)
         /\ \A d \in MergedDocs(t) : ~SuppliesEnvs(d))
        => {"NODE_ENV", "SWC_ENV"} \subseteq gopt[t].envs

\* C6: an inlined environment variable is always the string literal of its value,
\* and no value makes build abort
C6_EnvIsStringLiteral ==
    \A t \in Threads :
        /\ (pc[t] = "envs") => ~IsSome(panicked[t])
        /\ \A k \in DOMAIN inline[t].envs :
               /\ inline[t].envs[k].type = "Str"
               /\ inline[t].envs[k].value = environ[k]

\* the module pass of each format
FormatPass(type) ==
    IF type = "commonjs" THEN "common_js" ELSE IF type = "umd" THEN "umd" ELSE "amd"

\* C7: import analysis runs exactly when a format is configured whose noInterop
\* is false, the module pass is the format's, and without a format it is noop
C7_ModuleSelection ==
    \A t \in Threads : IsSome(built[t]) =>
        LET m == config[t][1].module
            b == Built(t)
        IN /\ b.pass[17].enabled
           /\ IF IsSome(m)
              THEN /\ PassEnabled(b, "import_analyzer") <=> ~m[1].no_interop
                   /\ b.pass[17].name = FormatPass(m[1].type)
              ELSE /\ ~PassEnabled(b, "import_analyzer")
                   /\ b.pass[17].name = "noop"

\* commonjs with noInterop false: import analysis on
C7_Witness ==
    /\ IsSome(built[1])
    /\ config[1][1].module = Some([type |-> "commonjs", no_interop |-> FALSE])
    /\ layers[1][1].module = Some([type |-> "commonjs", no_interop |-> FALSE])
    /\ PassEnabled(Built(1), "import_analyzer")

DocTarget(d) == Deserialize_Config(d).jsc.target

\* C8: the merged target is the maximum of the targets merged: never below the
\* target of any document merged so far, and one of them (or the default)
C8_TargetMonotonic ==
    \A t \in Threads : IsSome(config[t]) =>
        /\ \A d \in MergedDocs(t) : config[t][1].jsc.target >= DocTarget(d)
        /\ config[t][1].jsc.target \in
               {DocTarget(d) : d \in MergedDocs(t)} \cup {JscTarget_default}

\* es2017 was merged first, es5 after it, and the target stayed es2017
C8_Witness ==
    /\ pc[1] = "vars"
    /\ Len(layers[1]) >= 1
    /\ DocTarget(layers[1][1]) = Es2017
    /\ IsSome(opts[1].config)
    /\ DocTarget(opts[1].config[1]) = Es5
    /\ config[1][1].jsc.target = Es2017

\* C9: external_helpers or minify true in any merged document is true in the
\* merged Config and in the BuiltConfig
C9_EnableFlagsOr ==
    \A t \in Threads : IsSome(config[t]) =>
        /\ (\E d \in MergedDocs(t) : d.jsc.external_helpers = Some(TRUE)) =>
               /\ config[t][1].jsc.external_helpers
               /\ IsSome(built[t]) => Built(t).external_helpers
        /\ (\E d \in MergedDocs(t) : d.minify = Some(TRUE)) =>
               /\ config[t][1].minify = Some(TRUE)
               /\ IsSome(built[t]) => Built(t).minify

\* both flags true in the first document, false in the last: the BuiltConfig has both
C9_Witness ==
    /\ IsSome(built[1])
    /\ Len(layers[1]) >= 1
    /\ layers[1][1].jsc.external_helpers = Some(TRUE)
    /\ layers[1][1].minify = Some(TRUE)
    /\ IsSome(opts[1].config)
    /\ opts[1].config[1].jsc.external_helpers = Some(FALSE)
    /\ opts[1].config[1].minify = Some(FALSE)
    /\ Built(1).external_helpers
    /\ Built(1).minify

\* the fixed list of passes; the module pass of any format holds one place
FixedOrder ==
    << "react", "typescript_strip", "resolver", "const_modules", "inline_globals",
       "decorators", "class_properties", "export", "simplifier", "compat_es2018",
       "compat_es2017", "compat_es2016", "compat_es2015", "compat_es3",
       "import_analyzer", "InjectHelpers", "module", "hygiene", "fixer" >>

Place(name) == IF name \in {"noop", "common_js", "umd", "amd"} THEN "module" ELSE name

Rank(name) == CHOOSE i \in 1..Len(FixedOrder) : FixedOrder[i] = Place(name)

\* C10: the passes that run are in the order of the fixed list, and resolver,
\* inline_globals, InjectHelpers and the module pass always run
C10_FixedOrder ==
    \A t \in Threads : IsSome(built[t]) =>
        LET r == RunningPasses(Built(t))
        IN /\ \A i \in 1..Len(r) : \E n \in 1..Len(FixedOrder) : FixedOrder[n] = Place(r[i])
           /\ \A i, j \in 1..Len(r) : i < j => Rank(r[i]) < Rank(r[j])
           /\ \A must \in {"resolver", "inline_globals", "InjectHelpers", "module"} :
                  \E i \in 1..Len(r) : Place(r[i]) = must

\* a pipeline with some optional passes on and others off, import analysis among the on
C10_Witness ==
    /\ IsSome(built[1])
    /\ PassEnabled(Built(1), "typescript_strip")
    /\ ~PassEnabled(Built(1), "react")
    /\ PassEnabled(Built(1), "import_analyzer")
    /\ PassEnabled(Built(1), "compat_es2015")
    /\ ~PassEnabled(Built(1), "compat_es3")

====
